---- MODULE Spec2Model ----
(***************************************************************************)
(* The EAF simulator's control surface: the React Dashboard (two variants  *)
(* of the component exist in the repository), the Control Panel (two       *)
(* variants), the HTTP requests and the WebSocket between them and the     *)
(* simulation server.  The server's code is not part of the sources; its   *)
(* Clock and Command Channel are modelled from the specification.          *)
(*                                                                         *)
(* Numbers are JavaScript numbers held in hundredths (400.0 is 40000,      *)
(* 0.8 is 80), tagged so that NaN is a value of its own.                   *)
(***************************************************************************)
EXTENDS Integers, Sequences, FiniteSets, TLC

VARIABLES
    dashboard,          \* which Dashboard component is mounted: "part_001" | "part_002"
    panel,              \* which ControlPanel component is mounted: 1 | 2
    simulationData,     \* Dashboard state: latest snapshot or Null
    simulationHistory,  \* Dashboard state: array of snapshots
    isRunning,          \* Dashboard state
    flips,              \* history: times handleStopSimulation turned isRunning off
    websocket,          \* Dashboard state: Null or the socket
    error,              \* Dashboard state: NoError or a message
    readyState,         \* the WebSocket object's readyState
    mounted,            \* FALSE once the WebSocket effect's cleanup has run
    wsChannel,          \* frames sent by the server, not yet handled by onmessage
    requests,           \* the fetches in flight, in issue order
    issued,             \* number of fetches issued so far
    simulationParams,   \* ControlPanel state
    operatingParams,    \* ControlPanel state
    materialInput,      \* ControlPanel state (materialData in the second variant)
    clock,              \* server: "idle" | "running" | "stopped"
    tick,               \* server: current tick index
    params,             \* server: OperatingParameters in effect
    commandQueue,       \* server: accepted commands waiting for the tick boundary
    zoneMass,           \* server: mass of each zone
    missedFrames,       \* server: frames dropped from the subscriber's queue
    peer,               \* server: another subscriber of the broadcaster
    misordered,         \* history: a command was accepted after a later-issued one
    delivered,          \* history: every frame onmessage treated as a snapshot
    lastBranch,         \* history: the branch the last onmessage call took
    scene,              \* EAFVisualizer: the three.js scene the animation loop draws
    heap,               \* the snapshot objects and the arrays of them allocated so far
    historyRef,         \* the array object simulationHistory holds; 0 once not followed
    chartData,          \* ChartsPanel: the points of the last chartData computation
    edits               \* number of edits made in the forms

vars == << dashboard, panel, simulationData, simulationHistory, isRunning, flips,
           websocket, error, readyState, mounted, wsChannel, requests, issued,
           simulationParams, operatingParams, materialInput, clock, tick,
           params, commandQueue, zoneMass, missedFrames, peer, misordered,
           delivered, lastBranch, scene, heap, historyRef, chartData, edits >>

dashVars  == << simulationData, simulationHistory, isRunning, flips, websocket,
               error >>
panelVars == << simulationParams, operatingParams, materialInput, edits >>
serverVars == << clock, tick, params, commandQueue, zoneMass, missedFrames, peer,
                misordered >>
wsVars == << readyState, mounted, wsChannel, delivered, lastBranch >>
viewVars == << scene >>
\* what no handler of the Dashboard, of the panel or of the server changes
heapVars == << heap, historyRef >>
fixedVars == << dashboard, panel, viewVars, heapVars, chartData >>

(***************************************************************************)
(* Bounds of the model.                                                    *)
(***************************************************************************)
MaxRequests == 3        \* fetches issued in one behaviour
MaxTicks == 2           \* ticks of a run
MaxChannel == 1         \* frames queued for the subscriber
MaxEdits == 1           \* edits of the operating parameters
MaxMaterialEdits == 2   \* edits of the material form
MaxHistoryTicks == 1002 \* ticks of the run in the history specification
MaxFormEdits == 1       \* edits of the parameter forms
MaxOtherFrames == 2     \* snapshots handled before the frames of other kinds stop
MaxAnimationFrames == 4 \* animation frames rendered
MaxArrays == 6          \* array objects followed on the heap
MaxAddEdits == 4        \* edits of the material form, enough to fill it twice

(***************************************************************************)
(* JavaScript values.                                                      *)
(***************************************************************************)
Null == [null |-> TRUE]
NoError == "<null>"

Num(v) == [nan |-> FALSE, val |-> v]
NaN == [nan |-> TRUE, val |-> 0]
\* JavaScript truthiness of a number: NaN and 0 are falsy
Truthy(x) == ~x.nan /\ x.val # 0
\* x > c and x <= c: every comparison with NaN is false
Greater(x, c) == ~x.nan /\ x.val > c
LessEq(x, c) == ~x.nan /\ x.val <= c

DigitChars == << "0", "1", "2", "3", "4", "5", "6", "7", "8", "9" >>
IsDigit(c) == \E i \in 1..10 : DigitChars[i] = c
DigitVal(c) == (CHOOSE i \in 1..10 : DigitChars[i] = c) - 1

RECURSIVE SkipSpaces(_, _)
SkipSpaces(s, i) ==
    IF i <= Len(s) /\ s[i] = " " THEN SkipSpaces(s, i + 1) ELSE i

RECURSIVE DigitsEnd(_, _)
DigitsEnd(s, i) ==
    IF i <= Len(s) /\ IsDigit(s[i]) THEN DigitsEnd(s, i + 1) ELSE i

RECURSIVE DigitsValue(_, _, _)
DigitsValue(s, i, j) ==
    IF i >= j THEN 0 ELSE DigitsValue(s, i, j - 1) * 10 + DigitVal(s[j - 1])

\* parseFloat of a string given as its sequence of characters: leading blanks,
\* an optional sign, digits, an optional fraction; the longest such prefix is
\* the number, and NaN when it holds no digit.  The value is in hundredths.
ParseFloat(s) ==
    LET a == SkipSpaces(s, 1)
        neg == a <= Len(s) /\ s[a] = "-"
        b == IF a <= Len(s) /\ s[a] \in {"-", "+"} THEN a + 1 ELSE a
        c == DigitsEnd(s, b)
        hasDot == c <= Len(s) /\ s[c] = "."
        d == IF hasDot THEN DigitsEnd(s, c + 1) ELSE c
        nInt == c - b
        nFrac == IF hasDot THEN d - (c + 1) ELSE 0
        frac == IF nFrac = 0 THEN 0
                ELSE IF nFrac = 1 THEN DigitVal(s[c + 1]) * 10
                ELSE DigitVal(s[c + 1]) * 10 + DigitVal(s[c + 2])
        mag == DigitsValue(s, b, c) * 100 + frac
    IN  IF nInt + nFrac = 0 THEN NaN ELSE Num(IF neg THEN 0 - mag ELSE mag)

\* Array.prototype.slice(start) with one argument
Slice(arr, start) ==
    LET len == Len(arr)
        k == IF start < 0 THEN (IF len + start < 0 THEN 0 ELSE len + start)
             ELSE (IF start > len THEN len ELSE start)
    IN  SubSeq(arr, k + 1, len)

(***************************************************************************)
(* Dashboard: the WebSocket effect.                                        *)
(***************************************************************************)
HistoryKeep == 1000

\* the updater given to setSimulationHistory
AppendHistoryKeepOldest(prev, data) ==
    LET newHistory == prev \o << data >>
    IN  SubSeq(newHistory, 1,
               IF Len(newHistory) < HistoryKeep THEN Len(newHistory) ELSE HistoryKeep)
AppendHistoryNewestFirst(prev, data) ==
    LET newHistory == << data >> \o prev
    IN  Slice(newHistory, 0 - HistoryKeep)
AppendHistory(prev, data) ==
    LET newHistory == prev \o << data >>
    IN  Slice(newHistory, 0 - HistoryKeep)

\* Objects.  A snapshot is an object created by JSON.parse, an array holds
\* references to snapshots; both are named by their place on the heap.
InitialHeap == [objects |-> << >>, arrays |-> << << >> >>]

\* a new object / a new array: the heap with it and its name
New(h, value) ==
    [heap |-> [h EXCEPT !.objects = Append(@, value)], id |-> Len(h.objects) + 1]
NewArray(h, refs) ==
    [heap |-> [h EXCEPT !.arrays = Append(@, refs)], ref |-> Len(h.arrays) + 1]

\* the array simulationHistory holds is followed and n more arrays can be
Followed(n) == historyRef # 0 /\ Len(heap.arrays) + n <= MaxArrays

\* the snapshots an array refers to
Deref(h, ref) == [k \in 1..Len(h.arrays[ref]) |-> h.objects[h.arrays[ref][k]]]

\* an updater that pushes onto the array it was given
setSimulationHistoryPush(h, prevRef, id) ==
    LET pushed == [h EXCEPT !.arrays[prevRef] = Append(@, id)]
    IN  NewArray(pushed, Slice(pushed.arrays[prevRef], 0 - HistoryKeep))

\* the updater given to setSimulationHistory, on the heap: [...prev, data]
\* is a new array and slice(-1000) of it another
setSimulationHistory(h, prevRef, id) ==
    LET newHistory == NewArray(h, h.arrays[prevRef] \o << id >>)
    IN  NewArray(newHistory.heap, Slice(newHistory.heap.arrays[newHistory.ref], 0 - HistoryKeep))

\* frames on the wire: text that JSON.parse accepts, or not
Frame(value) == [json |-> TRUE, value |-> value]
Garbage == [json |-> FALSE, value |-> Null]
HasType(data, t) == "type" \in DOMAIN data /\ data.type = t

\* a parser that returns null for text that is no JSON, read without a throw
ParsesLeniently(frame) == TRUE

\* JSON.parse succeeded and reading data.type did not throw
Parses(frame) == frame.json /\ frame.value # Null

\* an onmessage without its heartbeat branch
MessageBranchNoHeartbeat(data) ==
    IF HasType(data, "connection_status") THEN "connection_status"
    ELSE IF HasType(data, "simulation_data") THEN "simulation_data"
    ELSE "legacy"

\* an onmessage that skips what is not of type simulation_data
MessageBranchTypedOnly(data) ==
    IF HasType(data, "connection_status") THEN "connection_status"
    ELSE IF HasType(data, "simulation_data") THEN "simulation_data"
    ELSE "heartbeat"

\* the branch of onmessage a parsed frame takes
MessageBranch(data) ==
    IF HasType(data, "connection_status") THEN "connection_status"
    ELSE IF HasType(data, "heartbeat") THEN "heartbeat"
    ELSE IF HasType(data, "simulation_data") THEN "simulation_data"
    ELSE "legacy"

IsSnapshotBranch(b) == b \in {"simulation_data", "legacy"}

(***************************************************************************)
(* Control Panel: state and forms.                                         *)
(***************************************************************************)
DefaultSimulationParams ==
    [ furnace_capacity |-> Num(15000), simulation_duration |-> Num(360000),
      time_step |-> Num(100), arc_voltage |-> Num(40000),
      arc_current |-> Num(5000), power_factor |-> Num(80) ]

DefaultOperatingParams ==
    [ arc_voltage |-> Num(40000), arc_current |-> Num(5000),
      power_factor |-> Num(80), electrode_position |-> Num(200),
      oxygen_flow_rate |-> Num(50), carbon_injection_rate |-> Num(10),
      lime_addition_rate |-> Num(5), dolomite_addition_rate |-> Num(3) ]

DefaultMaterialInput ==
    IF panel = 1
    THEN [ material_name |-> "", amount |-> Num(0), zone |-> "liquid_metal" ]
    ELSE [ material_name |-> "steel_scrap", amount |-> Num(10000), zone |-> "liquid_metal" ]

\* the value a change handler stores for a numeric field
StoredNumber(text) ==
    IF panel = 1
    THEN (IF Truthy(ParseFloat(text)) THEN ParseFloat(text) ELSE Num(0))
    ELSE ParseFloat(text)

\* what the user can type into a number input (its value is "" when the text
\* typed is no number)
NumberTexts == { << >>, << "-", "1", "0" >>, << "5", "0", "0" >> }
\* the material names the form can hold: free text in the first panel, the
\* options of a select in the second
NameTexts == IF panel = 1 THEN { "", "Fe" } ELSE { "steel_scrap", "dri" }
\* a zone select with one more option, naming no zone of the furnace
ZoneOptionsWithElectrode == { "liquid_metal", "slag", "electrode" }
\* the options of the zone select
ZoneOptions ==
    IF panel = 1 THEN { "liquid_metal", "slag", "refractory" }
    ELSE { "liquid_metal", "slag", "arc" }

SimulationFields ==
    { "furnace_capacity", "simulation_duration", "time_step", "arc_voltage",
      "arc_current", "power_factor" }

\* the setup fields the panel renders an input for
SimulationInputs ==
    IF panel = 1 THEN { "furnace_capacity", "simulation_duration", "time_step" }
    ELSE SimulationFields

\* the operating fields the panel renders an input for
OperatingInputs ==
    { "arc_voltage", "arc_current", "power_factor", "electrode_position",
      "oxygen_flow_rate", "carbon_injection_rate", "lime_addition_rate",
      "dolomite_addition_rate" }

\* e.target.value of a parameter input (type="number"): "" when the field is
\* cleared or holds text that is no number, else the number typed
FieldTexts == { << >>, << "2" >> }

handleSimulationParamChange(field, text) ==
    /\ mounted
    /\ simulationParams' = [simulationParams EXCEPT ![field] = StoredNumber(text)]
    /\ UNCHANGED << operatingParams, materialInput >>

handleOperatingParamChange(field, text) ==
    /\ mounted
    /\ operatingParams' = [operatingParams EXCEPT ![field] = StoredNumber(text)]
    /\ UNCHANGED << simulationParams, materialInput >>

handleMaterialInputChange(field, value) ==
    /\ mounted
    /\ materialInput' = [materialInput EXCEPT
            ![field] = IF field = "amount" THEN StoredNumber(value) ELSE value]
    /\ UNCHANGED << simulationParams, operatingParams >>

\* getCurrentPower of the first panel, in hundredths of a MW: 0 until a
\* snapshot has been received, then V x I x pf / 1000 of the form's values
getCurrentPower ==
    IF simulationData = Null THEN 0
    ELSE ((((operatingParams.arc_voltage.val * operatingParams.arc_current.val) \div 100)
             * operatingParams.power_factor.val) \div 100) \div 1000

\* the buttons the panel renders for the isRunning it was given
StartButtonShown == ~isRunning
StopButtonShown == isRunning
\* an Update Parameters button without its disabled attribute
UpdateButtonAlwaysEnabled == TRUE
UpdateButtonEnabled == isRunning
AddButtonEnabled ==
    IF panel = 1
    THEN ~(materialInput.material_name = "" \/ LessEq(materialInput.amount, 0))
    ELSE isRunning

(***************************************************************************)
(* Dashboard: the command handlers.  A fetch is a record of requests; the  *)
(* server answers the requests in flight in any order, and the responses   *)
(* reach their handlers in any order.                                      *)
(***************************************************************************)
NoPayload == [none |-> TRUE]
NoResponse == [net |-> FALSE, ok |-> FALSE, status |-> "", message |-> "",
               is_running |-> FALSE]
\* fetch rejected: the request or its response was lost
NetworkFailure == [net |-> FALSE, ok |-> FALSE, status |-> "",
                   message |-> "Failed to fetch", is_running |-> FALSE]
HttpError(code) == [net |-> TRUE, ok |-> FALSE, status |-> "", message |-> code,
                    is_running |-> FALSE]
JsonResponse(status, message, running) ==
    [net |-> TRUE, ok |-> TRUE, status |-> status, message |-> message,
     is_running |-> running]

Request(kind, payload) ==
    [kind |-> kind, payload |-> payload, state |-> "sent", response |-> NoResponse,
     overtaken |-> FALSE]

CanFetch == mounted /\ issued < MaxRequests
\* fetch(...): one more request in flight
Fetch(kind, payload) ==
    /\ requests' = Append(requests, Request(kind, payload))
    /\ issued' = issued + 1
Answered(kind) == { i \in 1..Len(requests) : requests[i].kind = kind /\ requests[i].state = "answered" }

\* a handler has run to its end: the fetch is no longer in flight
Settle(i) == SubSeq(requests, 1, i - 1) \o SubSeq(requests, i + 1, Len(requests))

\* err.message in the catch block of a handler
ErrorMessage(resp, fallback) ==
    IF ~resp.net THEN resp.message
    ELSE IF ~resp.ok THEN "HTTP error! status"
    ELSE IF resp.message # "" THEN resp.message ELSE fallback

\* the handler reads the result without looking at its status
CommandSucceededIgnoringStatus(resp) == resp.net /\ resp.ok

\* the handler does not look at response.ok either
CommandSucceededOnAnyResponse(resp) == resp.net

\* the try block of handleStartSimulation / handleStopSimulation ran to its end
CommandSucceeded(resp) == resp.net /\ resp.ok /\ resp.status = "success"

\* the try block of handleUpdateParameters / handleAddMaterial ran to its end:
\* the first Dashboard reads the result without looking at its status
RequestSucceeded(resp) ==
    IF dashboard = "part_001" THEN resp.net /\ resp.ok
    ELSE resp.net /\ resp.ok /\ resp.status = "success"

\* ControlPanel.handleStartSimulation -> Dashboard.handleStartSimulation
ClickStart ==
    /\ CanFetch /\ StartButtonShown
    /\ error' = NoError
    /\ Fetch("start", simulationParams)
    /\ UNCHANGED << simulationData, simulationHistory, isRunning, flips, websocket >>
    /\ UNCHANGED << panelVars, serverVars, wsVars, fixedVars >>

\* a start handler that empties the history when the start succeeded
StartResponseClearsHistory(i) ==
    /\ i \in Answered("start")
    /\ requests' = Settle(i) /\ UNCHANGED issued
    /\ IF ~mounted THEN UNCHANGED << isRunning, flips, error, simulationData, simulationHistory >>
       ELSE IF CommandSucceeded(requests[i].response)
       THEN /\ isRunning' = TRUE /\ UNCHANGED << flips, error >>
            /\ simulationData' = Null /\ simulationHistory' = << >>
       ELSE /\ error' = ErrorMessage(requests[i].response, "Failed to start simulation")
            /\ simulationData' = Null /\ simulationHistory' = << >>
            /\ UNCHANGED << isRunning, flips >>
    /\ UNCHANGED websocket
    /\ UNCHANGED << panelVars, serverVars, wsVars, fixedVars >>

StartResponse(i) ==
    /\ i \in Answered("start")
    /\ requests' = Settle(i) /\ UNCHANGED issued
    /\ IF ~mounted THEN UNCHANGED << isRunning, flips, error >>
       ELSE IF CommandSucceeded(requests[i].response)
       THEN isRunning' = TRUE /\ UNCHANGED << flips, error >>
       ELSE /\ error' = ErrorMessage(requests[i].response, "Failed to start simulation")
            /\ UNCHANGED << isRunning, flips >>
    /\ UNCHANGED << simulationData, simulationHistory, websocket >>
    /\ UNCHANGED << panelVars, serverVars, wsVars, fixedVars >>

\* ControlPanel.handleStopSimulation -> Dashboard.handleStopSimulation
ClickStop ==
    /\ CanFetch /\ StopButtonShown
    /\ Fetch("stop", NoPayload)
    /\ UNCHANGED << dashVars, panelVars, serverVars, wsVars, fixedVars >>

StopResponse(i) ==
    /\ i \in Answered("stop")
    /\ requests' = Settle(i) /\ UNCHANGED issued
    /\ IF ~mounted THEN UNCHANGED << isRunning, flips, error >>
       ELSE IF CommandSucceeded(requests[i].response)
       THEN /\ isRunning' = FALSE
            /\ flips' = IF isRunning THEN flips + 1 ELSE flips
            /\ UNCHANGED error
       ELSE /\ error' = ErrorMessage(requests[i].response, "Failed to stop simulation")
            /\ UNCHANGED << isRunning, flips >>
    /\ UNCHANGED << simulationData, simulationHistory, websocket >>
    /\ UNCHANGED << panelVars, serverVars, wsVars, fixedVars >>

\* a panel that sends the time step along with the operating parameters
ClickUpdateParametersWithTimeStep ==
    /\ CanFetch /\ UpdateButtonEnabled
    /\ Fetch("update_parameters",
             [f \in DOMAIN operatingParams \cup { "time_step" } |->
                 IF f = "time_step" THEN simulationParams.time_step
                 ELSE operatingParams[f]])
    /\ UNCHANGED << dashVars, panelVars, serverVars, wsVars, fixedVars >>

\* ControlPanel.handleUpdateParameters -> Dashboard.handleUpdateParameters
ClickUpdateParameters ==
    /\ CanFetch /\ UpdateButtonEnabled
    /\ Fetch("update_parameters", operatingParams)
    /\ UNCHANGED << dashVars, panelVars, serverVars, wsVars, fixedVars >>

UpdateResponse(i) ==
    /\ i \in Answered("update_parameters")
    /\ requests' = Settle(i) /\ UNCHANGED issued
    /\ IF ~mounted \/ RequestSucceeded(requests[i].response)
       THEN UNCHANGED error
       ELSE error' = ErrorMessage(requests[i].response, "Failed to update parameters")
    /\ UNCHANGED << simulationData, simulationHistory, isRunning, flips, websocket >>
    /\ UNCHANGED << panelVars, serverVars, wsVars, fixedVars >>

\* a handleAddMaterial that sends the form and leaves it filled
ClickAddMaterialKeepsForm ==
    /\ CanFetch /\ AddButtonEnabled
    /\ IF panel = 1
       THEN IF materialInput.material_name # "" /\ Greater(materialInput.amount, 0)
            THEN Fetch("add_material", materialInput)
            ELSE UNCHANGED << requests, issued >>
       ELSE Fetch("add_material", materialInput)
    /\ UNCHANGED << simulationParams, operatingParams, materialInput, edits >>
    /\ UNCHANGED << dashVars, serverVars, wsVars, fixedVars >>

\* ControlPanel.handleAddMaterial -> Dashboard.handleAddMaterial: the first
\* panel checks the form again and resets it, the second sends it as it is
ClickAddMaterial ==
    /\ CanFetch /\ AddButtonEnabled
    /\ IF panel = 1
       THEN IF materialInput.material_name # "" /\ Greater(materialInput.amount, 0)
            THEN /\ Fetch("add_material", materialInput)
                 /\ materialInput' = [ material_name |-> "", amount |-> Num(0),
                                        zone |-> "liquid_metal" ]
            ELSE UNCHANGED << requests, issued, materialInput >>
       ELSE /\ Fetch("add_material", materialInput)
            /\ UNCHANGED materialInput
    /\ UNCHANGED << simulationParams, operatingParams, edits >>
    /\ UNCHANGED << dashVars, serverVars, wsVars, fixedVars >>

AddResponse(i) ==
    /\ i \in Answered("add_material")
    /\ requests' = Settle(i) /\ UNCHANGED issued
    /\ IF ~mounted \/ RequestSucceeded(requests[i].response)
       THEN UNCHANGED error
       ELSE error' = ErrorMessage(requests[i].response, "Failed to add material")
    /\ UNCHANGED << simulationData, simulationHistory, isRunning, flips, websocket >>
    /\ UNCHANGED << panelVars, serverVars, wsVars, fixedVars >>

\* getSimulationStatus, called on mount and every 5 s by the second Dashboard
PollStatus ==
    /\ dashboard = "part_002" /\ CanFetch
    /\ Fetch("status", NoPayload)
    /\ UNCHANGED << dashVars, panelVars, serverVars, wsVars, fixedVars >>

\* the interval of the polling effect fires: the poll is periodic for as long
\* as the Dashboard is mounted, one request at a time here
PeriodicPoll ==
    /\ dashboard = "part_002" /\ mounted
    /\ \A i \in 1..Len(requests) : requests[i].kind # "status"
    /\ requests' = Append(requests, Request("status", NoPayload))
    /\ UNCHANGED issued
    /\ UNCHANGED << dashVars, panelVars, serverVars, wsVars, fixedVars >>

StatusResponse(i) ==
    /\ i \in Answered("status")
    /\ requests' = Settle(i) /\ UNCHANGED issued
    /\ IF mounted /\ requests[i].response.net /\ requests[i].response.ok
       THEN isRunning' = requests[i].response.is_running
       ELSE UNCHANGED isRunning
    /\ UNCHANGED << simulationData, simulationHistory, flips, websocket, error >>
    /\ UNCHANGED << panelVars, serverVars, wsVars, fixedVars >>

\* a fetch fails: the request never reaches the server
RequestLost(i) ==
    /\ i \in 1..Len(requests) /\ requests[i].state = "sent"
    /\ requests' = [requests EXCEPT ![i].state = "answered",
                                     ![i].response = NetworkFailure]
    /\ UNCHANGED issued
    /\ UNCHANGED << dashVars, panelVars, serverVars, wsVars, fixedVars >>

(***************************************************************************)
(* The server: Command Channel and Simulation Clock.                       *)
(***************************************************************************)
ZoneKinds == { "arc", "liquid_metal", "slag", "refractory" }

OperatingFieldOrder ==
    << "arc_voltage", "arc_current", "power_factor", "electrode_position",
       "oxygen_flow_rate", "carbon_injection_rate", "lime_addition_rate",
       "dolomite_addition_rate" >>

\* the range of each operating parameter
InRange(field, x) ==
    IF field \in { "arc_voltage", "arc_current" } THEN Greater(x, 0)
    ELSE IF field = "power_factor" THEN Greater(x, 0) /\ LessEq(x, 100)
    ELSE IF field = "electrode_position" THEN ~x.nan
    ELSE ~x.nan /\ x.val >= 0

BadFields(payload) ==
    { k \in 1..Len(OperatingFieldOrder) :
        /\ OperatingFieldOrder[k] \in DOMAIN payload
        /\ ~InRange(OperatingFieldOrder[k], payload[OperatingFieldOrder[k]]) }

\* "" when every field of the payload is in range, else the first bad field
FirstBadField(payload) ==
    IF BadFields(payload) = {} THEN ""
    ELSE OperatingFieldOrder[CHOOSE k \in BadFields(payload) :
                                \A j \in BadFields(payload) : k <= j]

StopPending == \E k \in 1..Len(commandQueue) : commandQueue[k].kind = "stop"
\* the run accepts commands
Running == clock = "running" /\ ~StopPending

Command(i) == [kind |-> requests[i].kind, payload |-> requests[i].payload]

Success == JsonResponse("success", "", FALSE)

\* a rejection reaches the caller as an HTTP error or as a result whose status
\* is not 'success'
Rejections(code) == { HttpError(code), JsonResponse("error", code, FALSE) }

Answer(i, resp) ==
    requests' = [requests EXCEPT ![i].state = "answered", ![i].response = resp]

\* the Command Channel accepts request i: every earlier-issued request that
\* has not reached the server yet is overtaken by it
Accept(i) ==
    /\ requests' = [j \in 1..Len(requests) |->
            IF j = i THEN [requests[j] EXCEPT !.state = "answered", !.response = Success]
            ELSE IF j < i /\ requests[j].state = "sent"
            THEN [requests[j] EXCEPT !.overtaken = TRUE]
            ELSE requests[j]]
    /\ misordered' = (misordered \/ requests[i].overtaken)

Sent(kind) == { i \in 1..Len(requests) : requests[i].kind = kind /\ requests[i].state = "sent" }

\* a Clock that lets a stopped run start again
StartVerdictUnlessRunning == IF clock = "running" THEN "already_running" ELSE ""

\* the verdict of the Command Channel on a command: "" accepts it
StartVerdict == IF clock # "idle" THEN "already_running" ELSE ""
StopVerdict == IF ~Running THEN "not_running" ELSE ""
\* a Command Channel that checks the state of the Clock and not the values
UpdateVerdictStateOnly(payload) == IF ~Running THEN "not_running" ELSE ""

UpdateVerdict(payload) ==
    IF FirstBadField(payload) # "" THEN "out_of_range:" \o FirstBadField(payload)
    ELSE IF ~Running THEN "not_running" ELSE ""
AddVerdict(payload) ==
    IF ~Greater(payload.amount, 0) THEN "invalid_amount"
    ELSE IF payload.zone \notin ZoneKinds THEN "unknown_zone"
    ELSE IF ~Running THEN "not_running" ELSE ""

ReceiveStart(i) ==
    /\ i \in Sent("start")
    /\ IF StartVerdict = ""
       THEN /\ clock' = "running"
            /\ params' = [params EXCEPT
                    !.arc_voltage = requests[i].payload.arc_voltage,
                    !.arc_current = requests[i].payload.arc_current,
                    !.power_factor = requests[i].payload.power_factor]
            /\ Accept(i)
       ELSE /\ \E resp \in Rejections(StartVerdict) : Answer(i, resp)
            /\ UNCHANGED << clock, params, misordered >>
    /\ UNCHANGED << tick, commandQueue, zoneMass, missedFrames, peer >>
    /\ UNCHANGED << issued, dashVars, panelVars, wsVars, fixedVars >>

\* stop, update_parameters and add_material are queued for the tick boundary
ReceiveCommand(i, verdict) ==
    /\ IF verdict = ""
       THEN /\ commandQueue' = Append(commandQueue, Command(i))
            /\ Accept(i)
       ELSE /\ \E resp \in Rejections(verdict) : Answer(i, resp)
            /\ UNCHANGED << commandQueue, misordered >>
    /\ UNCHANGED << clock, tick, params, zoneMass, missedFrames, peer >>
    /\ UNCHANGED << issued, dashVars, panelVars, wsVars, fixedVars >>

ReceiveStop(i) == i \in Sent("stop") /\ ReceiveCommand(i, StopVerdict)

ReceiveUpdate(i) ==
    i \in Sent("update_parameters") /\ ReceiveCommand(i, UpdateVerdict(requests[i].payload))

ReceiveAdd(i) ==
    i \in Sent("add_material") /\ ReceiveCommand(i, AddVerdict(requests[i].payload))

ReceiveStatus(i) ==
    /\ i \in Sent("status")
    /\ Answer(i, JsonResponse("success", "", Running))
    /\ UNCHANGED << issued, serverVars, dashVars, panelVars, wsVars, fixedVars >>

\* P = V x I x power_factor, in hundredths
ElectricalPower(p) ==
    (((p.arc_voltage.val * p.arc_current.val) \div 100) * p.power_factor.val) \div 100

\* the liquid metal heats up while the arc is on; in hundredths of a degree
LiquidMetalTemperature(t) == 150000 + 100 * t

Snapshot(t, p, zm, fault) ==
    [ type |-> "simulation_data", simulation_time |-> t,
      current_power |-> ElectricalPower(p),
      zone_temperatures |-> [liquid_metal |-> LiquidMetalTemperature(t)],
      zone_masses |-> [liquid_metal |-> zm["liquid_metal"], slag |-> zm["slag"]],
      fault |-> fault ]

\* the commands taken at one boundary: the queue up to its first parameter
\* update or stop (at most one parameter update is applied per tick)
RECURSIVE BatchLength(_)
BatchLength(q) ==
    IF q = << >> THEN 0
    ELSE IF Head(q).kind \in { "update_parameters", "stop" } THEN 1
    ELSE 1 + BatchLength(Tail(q))

RECURSIVE ApplyBatch(_, _)
\* the parameters and zone masses after the commands of a batch, in order
ApplyBatch(state, batch) ==
    IF batch = << >> THEN state
    ELSE LET c == Head(batch)
             next ==
                 IF c.kind = "update_parameters"
                 THEN [state EXCEPT !.params =
                        [f \in DOMAIN state.params |->
                            IF f \in DOMAIN c.payload THEN c.payload[f] ELSE state.params[f]]]
                 ELSE IF c.kind = "add_material"
                 THEN [state EXCEPT !.mass[c.payload.zone] = @ + c.payload.amount.val]
                 ELSE state
         IN  ApplyBatch(next, Tail(batch))

Subscribed == readyState = "OPEN"

\* a broadcaster that refuses the new frame when the queue is full
EnqueueDropNewest(queue, frame) ==
    IF Len(queue) < MaxChannel THEN Append(queue, frame) ELSE queue

\* the subscriber's bounded queue: when it is full the oldest frame is dropped
Enqueue(queue, frame) ==
    IF Len(queue) < MaxChannel THEN Append(queue, frame)
    ELSE Append(Tail(queue), frame)

\* a subscriber other than the Dashboard: its queue, the frames it has taken
\* from it, its missed-frames counter
NoPeer == [subscribed |-> FALSE, queue |-> << >>, received |-> << >>, missed |-> 0]

Broadcast(frame) ==
    /\ IF Subscribed
       THEN /\ wsChannel' = Enqueue(wsChannel, frame)
            /\ missedFrames' = IF Len(wsChannel) < MaxChannel THEN missedFrames
                               ELSE missedFrames + 1
       ELSE UNCHANGED << wsChannel, missedFrames >>
    /\ peer' = IF ~peer.subscribed THEN peer
               ELSE [peer EXCEPT !.queue = Enqueue(@, frame),
                                 !.missed = IF Len(peer.queue) < MaxChannel
                                            THEN @ ELSE @ + 1]

\* subscribe() by the other subscriber
PeerSubscribe ==
    /\ ~peer.subscribed
    /\ peer' = [peer EXCEPT !.subscribed = TRUE]
    /\ UNCHANGED << clock, tick, params, commandQueue, zoneMass, missedFrames,
                    misordered >>
    /\ UNCHANGED << requests, issued, dashVars, panelVars, wsVars, fixedVars >>

\* the other subscriber takes the oldest frame of its queue
PeerReceive ==
    /\ peer.queue # << >>
    /\ peer' = [peer EXCEPT !.queue = Tail(@), !.received = Append(@, Head(peer.queue))]
    /\ UNCHANGED << clock, tick, params, commandQueue, zoneMass, missedFrames,
                    misordered >>
    /\ UNCHANGED << requests, issued, dashVars, panelVars, wsVars, fixedVars >>

\* one tick boundary of the Clock: drain, then either stop or step and publish
ServerTick(bound, mayDrop) ==
    /\ clock = "running"
    /\ LET n == BatchLength(commandQueue)
           batch == SubSeq(commandQueue, 1, n)
           stops == n > 0 /\ batch[n].kind = "stop"
           after == ApplyBatch([params |-> params, mass |-> zoneMass], batch)
       IN  /\ params' = after.params
           /\ zoneMass' = after.mass
           /\ IF stops
              THEN /\ clock' = "stopped"
                   /\ commandQueue' = << >>
                   /\ UNCHANGED << tick, wsChannel, missedFrames, peer >>
              ELSE /\ tick < bound
                   /\ mayDrop \/ ~Subscribed \/ Len(wsChannel) < MaxChannel
                   /\ tick' = tick + 1
                   /\ commandQueue' = SubSeq(commandQueue, n + 1, Len(commandQueue))
                   /\ Broadcast(Frame(Snapshot(tick + 1, after.params, after.mass, FALSE)))
                   /\ UNCHANGED clock
    /\ UNCHANGED << misordered, readyState, mounted, delivered, lastBranch, requests, issued >>
    /\ UNCHANGED << dashVars, panelVars, fixedVars >>

\* a numeric fault in the step function: the run ends with a terminal snapshot
ServerFault ==
    /\ clock = "running"
    /\ clock' = "stopped"
    /\ commandQueue' = << >>
    /\ Broadcast(Frame(Snapshot(tick, params, zoneMass, TRUE)))
    /\ UNCHANGED << tick, params, zoneMass, misordered >>
    /\ UNCHANGED << readyState, mounted, delivered, lastBranch, requests, issued >>
    /\ UNCHANGED << dashVars, panelVars, fixedVars >>

(***************************************************************************)
(* The WebSocket and the Dashboard's handlers on it.                       *)
(***************************************************************************)
Socket == [socket |-> TRUE]

\* the server accepts the connection and greets; ws.onopen
WsOpen ==
    /\ readyState = "CONNECTING"
    /\ readyState' = "OPEN"
    /\ wsChannel' = << Frame([type |-> "connection_status", message |-> "connected"]) >>
    /\ IF mounted
       THEN websocket' = Socket /\ error' = NoError
       ELSE UNCHANGED << websocket, error >>
    /\ UNCHANGED << simulationData, simulationHistory, isRunning, flips >>
    /\ UNCHANGED << mounted, delivered, lastBranch, requests, issued >>
    /\ UNCHANGED << panelVars, serverVars, fixedVars >>

\* the periodic heartbeat of the broadcaster
Heartbeat ==
    /\ Subscribed /\ Len(wsChannel) < MaxChannel
    /\ wsChannel' = Append(wsChannel,
            Frame([type |-> "heartbeat", simulation_running |-> Running]))
    /\ UNCHANGED << readyState, mounted, delivered, lastBranch, requests, issued >>
    /\ UNCHANGED << dashVars, panelVars, serverVars, fixedVars >>

\* frames of any other shape that can arrive on the socket: a heartbeat that
\* carries more than the run status, a repeated greeting, a snapshot without a
\* type, text that is no JSON
OtherFrames ==
    { Frame([type |-> "heartbeat", simulation_running |-> TRUE,
             simulation_time |-> 0, current_power |-> 0]),
      Frame([type |-> "connection_status", message |-> "connected"]),
      Frame([simulation_time |-> 0, current_power |-> 0]),
      Garbage }

WsFrame ==
    /\ Subscribed /\ Len(wsChannel) < MaxChannel
    /\ Len(delivered) < MaxOtherFrames
    /\ \E frame \in OtherFrames : wsChannel' = Append(wsChannel, frame)
    /\ UNCHANGED << readyState, mounted, delivered, lastBranch, requests, issued >>
    /\ UNCHANGED << dashVars, panelVars, serverVars, fixedVars >>

\* the liquid-metal temperatures a snapshot can carry, in hundredths of a
\* degree, around the two ignition temperatures of the charts
ChartTemperatures == { 119900, 120000, 120050, 140000, 140050, 160000 }

\* snapshots as JSON.parse can return them: with a liquid-metal temperature,
\* with zone temperatures that lack it, without zone temperatures
SnapshotFrames ==
    { Frame([type |-> "simulation_data", simulation_time |-> 1,
             zone_temperatures |-> [liquid_metal |-> temp]]) : temp \in ChartTemperatures }
    \cup { Frame([type |-> "simulation_data", simulation_time |-> 1,
                  zone_temperatures |-> [slag |-> 150000]]),
           Frame([type |-> "simulation_data", simulation_time |-> 1]),
           Frame([type |-> "simulation_data", simulation_time |-> 2,
                  current_power |-> 1600050, energy_efficiency |-> 8525,
                  zone_temperatures |-> [arc |-> 350000, liquid_metal |-> 152370,
                                         slag |-> 148000, refractory |-> 90000],
                  zone_masses |-> [liquid_metal |-> 12000, slag |-> 1550],
                  arc_length |-> 25, electrode_position |-> 50]) }

\* a snapshot arrives on the socket
WsSnapshotFrame ==
    /\ Subscribed /\ Len(wsChannel) < MaxChannel
    /\ Len(delivered) < MaxOtherFrames
    /\ \E frame \in SnapshotFrames : wsChannel' = Append(wsChannel, frame)
    /\ UNCHANGED << readyState, mounted, delivered, lastBranch, requests, issued >>
    /\ UNCHANGED << dashVars, panelVars, serverVars, fixedVars >>

\* a JSON text that is a number parses to that number, which has no fields
Primitive(v) == [primitive |-> v]

\* every kind of text JSON.parse accepts, and text it does not: the frames
\* above, the JSON text null, a number, an object of a type onmessage does not
\* name
ParsedFrames ==
    OtherFrames \cup
    { Frame(Null), Frame(Primitive(5)),
      Frame([type |-> "status_update", simulation_time |-> 0]) }

\* a frame of any kind arrives on the socket
WsAnyFrame ==
    /\ Subscribed /\ Len(wsChannel) < MaxChannel
    /\ Len(delivered) < MaxOtherFrames
    /\ \E frame \in ParsedFrames : wsChannel' = Append(wsChannel, frame)
    /\ UNCHANGED << readyState, mounted, delivered, lastBranch, requests, issued >>
    /\ UNCHANGED << dashVars, panelVars, serverVars, fixedVars >>

\* ws.onmessage on the oldest frame in flight
WsMessage ==
    /\ readyState \in { "OPEN", "CLOSING" } /\ wsChannel # << >>
    /\ wsChannel' = Tail(wsChannel)
    /\ LET frame == Head(wsChannel)
           branch == IF Parses(frame) THEN MessageBranch(frame.value) ELSE "catch"
       IN  /\ delivered' = IF IsSnapshotBranch(branch)
                           THEN Append(delivered, frame.value) ELSE delivered
           /\ lastBranch' = branch
           /\ IF ~mounted \/ branch \in { "catch", "heartbeat" }
              THEN UNCHANGED << simulationData, simulationHistory, error >>
              ELSE IF branch = "connection_status"
              THEN error' = NoError /\ UNCHANGED << simulationData, simulationHistory >>
              ELSE /\ simulationData' = frame.value
                   /\ simulationHistory' = AppendHistory(simulationHistory, frame.value)
                   /\ UNCHANGED error
           /\ IF ~mounted \/ ~IsSnapshotBranch(branch)
              THEN UNCHANGED heapVars
              ELSE IF Followed(2)
              THEN LET parsed == New(heap, frame.value)
                       set == setSimulationHistory(parsed.heap, historyRef, parsed.id)
                   IN  heap' = set.heap /\ historyRef' = set.ref
              ELSE heap' = heap /\ historyRef' = 0
    /\ UNCHANGED << isRunning, flips, websocket, readyState, mounted, requests, issued >>
    /\ UNCHANGED << panelVars, serverVars, dashboard, panel, viewVars, chartData >>

\* ws.onerror, followed by the close of the connection and ws.onclose
WsError ==
    /\ readyState \in { "CONNECTING", "OPEN" }
    /\ readyState' = "CLOSED"
    /\ wsChannel' = << >>
    /\ IF mounted
       THEN /\ error' = "WebSocket connection failed - check console for details"
            /\ websocket' = Null
       ELSE UNCHANGED << websocket, error >>
    /\ UNCHANGED << simulationData, simulationHistory, isRunning, flips >>
    /\ UNCHANGED << mounted, delivered, lastBranch, requests, issued >>
    /\ UNCHANGED << panelVars, serverVars, fixedVars >>

\* an onclose that leaves the websocket state as it is
WsCloseKeepsSocket ==
    /\ readyState \in { "OPEN", "CLOSING" }
    /\ readyState' = "CLOSED"
    /\ wsChannel' = << >>
    /\ UNCHANGED << simulationData, simulationHistory, isRunning, flips, error, websocket >>
    /\ UNCHANGED << mounted, delivered, lastBranch, requests, issued >>
    /\ UNCHANGED << panelVars, serverVars, fixedVars >>

\* the connection closes; ws.onclose
WsClose ==
    /\ readyState \in { "OPEN", "CLOSING" }
    /\ readyState' = "CLOSED"
    /\ wsChannel' = << >>
    /\ websocket' = IF mounted THEN Null ELSE websocket
    /\ UNCHANGED << simulationData, simulationHistory, isRunning, flips, error >>
    /\ UNCHANGED << mounted, delivered, lastBranch, requests, issued >>
    /\ UNCHANGED << panelVars, serverVars, fixedVars >>

\* the cleanup of the WebSocket effect (unmount)
Cleanup ==
    /\ mounted
    /\ mounted' = FALSE
    /\ readyState' = IF readyState = "OPEN" THEN "CLOSING" ELSE readyState
    /\ UNCHANGED << wsChannel, delivered, lastBranch, requests, issued >>
    /\ UNCHANGED << dashVars, panelVars, serverVars, fixedVars >>

\* getConnectionStatus of the render of the current state: websocket.readyState
\* is read from the socket the state holds
getConnectionStatus ==
    IF websocket # Null /\ readyState = "OPEN" THEN "connected"
    ELSE IF websocket # Null /\ readyState = "CONNECTING" THEN "connecting"
    ELSE "disconnected"

(***************************************************************************)
(* EAFVisualizer: the mount effect and its animation loop.                 *)
(***************************************************************************)
\* a colour of the scene: as created, or computed from a value of a snapshot
Created == [computed |-> FALSE, from |-> 0]
ComputedFrom(value) == [computed |-> TRUE, from |-> value]

\* the scene createEAFComponents builds: rotation.y in steps of 0.005
InitialScene == [rotation |-> 0, arc |-> Created, pool |-> Created]

\* the props of the render the mount effect ran in: its dependency list is
\* empty, so animate keeps the simulationData and isRunning of that render,
\* which are the initial state of the Dashboard
AnimateProps == [simulationData |-> Null, isRunning |-> FALSE]

\* data.field || 0, data?.a?.b || 0
FieldOrZero(data, field) == IF field \in DOMAIN data THEN data[field] ELSE 0
LiquidMetalOrZero(data) ==
    IF "zone_temperatures" \in DOMAIN data
    THEN FieldOrZero(data.zone_temperatures, "liquid_metal") ELSE 0

updateArcAnimation(sc, data, running) ==
    IF ~running \/ data = Null THEN sc
    ELSE [sc EXCEPT !.arc = ComputedFrom(FieldOrZero(data, "current_power")),
                    !.pool = ComputedFrom(LiquidMetalOrZero(data))]

\* one call of animate by requestAnimationFrame
animate ==
    /\ mounted
    /\ scene.rotation < MaxAnimationFrames
    /\ scene' = updateArcAnimation([scene EXCEPT !.rotation = @ + 1],
                                   AnimateProps.simulationData, AnimateProps.isRunning)
    /\ UNCHANGED << dashboard, panel, heapVars, chartData, requests, issued >>
    /\ UNCHANGED << dashVars, panelVars, serverVars, wsVars >>

(***************************************************************************)
(* ChartsPanel: chartData.                                                 *)
(***************************************************************************)
\* data?.group?.zone || 0
ZoneOrZero(data, group, zone) ==
    IF group \in DOMAIN data THEN FieldOrZero(data[group], zone) ELSE 0

\* Math.round of a number in hundredths: the nearest whole number, halves up
MathRound(v) == ((v + 50) \div 100) * 100

HasLiquidMetal(data) ==
    "zone_temperatures" \in DOMAIN data /\ "liquid_metal" \in DOMAIN data.zone_temperatures

\* a carbon rate that starts at the ignition temperature of silicon
CarbonRateFrom1400(data) ==
    IF HasLiquidMetal(data) /\ data.zone_temperatures.liquid_metal > 140000
    THEN 2 * (data.zone_temperatures.liquid_metal - 120000) ELSE 0

\* the oxidation rates of the charts, in units of 1/20000 (the temperature
\* is in hundredths of a degree):
\* T > 1200 ? (T - 1200) / 100 : 0 and T > 1400 ? (T - 1400) / 200 : 0, where
\* T is undefined (and every comparison with it false) when the field is absent
CarbonRate(data) ==
    IF HasLiquidMetal(data) /\ data.zone_temperatures.liquid_metal > 120000
    THEN 2 * (data.zone_temperatures.liquid_metal - 120000) ELSE 0
SiliconRate(data) ==
    IF HasLiquidMetal(data) /\ data.zone_temperatures.liquid_metal > 140000
    THEN data.zone_temperatures.liquid_metal - 140000 ELSE 0

\* the chart points of the panel that plots the oxidation rates: one per
\* entry of the history it is rendered with
ProcessedPoint(data, index) ==
    [ time |-> IF FieldOrZero(data, "simulation_time") # 0
               THEN data.simulation_time ELSE index,
      metalTemp |-> MathRound(ZoneOrZero(data, "zone_temperatures", "liquid_metal")),
      slagTemp |-> MathRound(ZoneOrZero(data, "zone_temperatures", "slag")),
      refractoryTemp |-> MathRound(ZoneOrZero(data, "zone_temperatures", "refractory")),
      power |-> MathRound(FieldOrZero(data, "current_power")),
      carbon |-> CarbonRate(data),
      silicon |-> SiliconRate(data) ]
ProcessedChartData(history) ==
    [k \in 1..Len(history) |-> ProcessedPoint(history[k], k - 1)]

TimeRanges == { "all", "300" }

\* a map that reads the slag mass where the metal mass is meant
ChartPointSlagForMetal(item, index) ==
    [ time |-> index,
      metalTemp |-> ZoneOrZero(item, "zone_temperatures", "liquid_metal"),
      slagTemp |-> ZoneOrZero(item, "zone_temperatures", "slag"),
      refractoryTemp |-> ZoneOrZero(item, "zone_temperatures", "refractory"),
      power |-> FieldOrZero(item, "current_power"),
      efficiency |-> FieldOrZero(item, "energy_efficiency"),
      metalMass |-> ZoneOrZero(item, "zone_masses", "slag"),
      slagMass |-> ZoneOrZero(item, "zone_masses", "slag"),
      arcLength |-> FieldOrZero(item, "arc_length"),
      electrodePosition |-> FieldOrZero(item, "electrode_position") ]

\* the point of the chart made from one history entry (its timestamp, which
\* no chart plots, is left out)
ChartPoint(item, index) ==
    [ time |-> index,
      metalTemp |-> ZoneOrZero(item, "zone_temperatures", "liquid_metal"),
      slagTemp |-> ZoneOrZero(item, "zone_temperatures", "slag"),
      refractoryTemp |-> ZoneOrZero(item, "zone_temperatures", "refractory"),
      power |-> FieldOrZero(item, "current_power"),
      efficiency |-> FieldOrZero(item, "energy_efficiency"),
      metalMass |-> ZoneOrZero(item, "zone_masses", "liquid_metal"),
      slagMass |-> ZoneOrZero(item, "zone_masses", "slag"),
      arcLength |-> FieldOrZero(item, "arc_length"),
      electrodePosition |-> FieldOrZero(item, "electrode_position") ]

\* chartData for the time range 'all': one point per entry of the history
ChartDataAll(history) ==
    [k \in 1..Len(history) |-> ChartPoint(history[k], k - 1)]

\* summaryMetrics of chart data (its two averages are left out): nothing for
\* no data, else values of the latest point and the highest power
summaryMetrics(points) ==
    IF points = << >> THEN [ empty |-> TRUE ]
    ELSE LET latest == points[Len(points)]
         IN  [ currentTemp |-> latest.metalTemp,
               currentPower |-> latest.power,
               maxPower |-> CHOOSE m \in { points[k].power : k \in 1..Len(points) } :
                                \A k \in 1..Len(points) : points[k].power <= m,
               currentEfficiency |-> latest.efficiency,
               totalMass |-> latest.metalMass + latest.slagMass ]

\* the chartData computation for one time range: a copy of the history, cut
\* by the filter to the entries recent enough (kept of them), mapped to points
RenderCharts ==
    /\ mounted /\ Followed(2)
    /\ \E timeRange \in TimeRanges, kept \in 0..Len(heap.arrays[historyRef]) :
          LET copy == NewArray(heap, heap.arrays[historyRef])
              n == Len(copy.heap.arrays[copy.ref])
              filteredData ==
                  IF timeRange = "all" THEN copy
                  ELSE NewArray(copy.heap, SubSeq(copy.heap.arrays[copy.ref], n - kept + 1, n))
              items == Deref(filteredData.heap, filteredData.ref)
          IN  /\ simulationHistory # << >>
              /\ heap' = filteredData.heap
              /\ chartData' = [k \in 1..Len(items) |-> ChartPoint(items[k], k - 1)]
    /\ UNCHANGED << historyRef, dashboard, panel, viewVars, requests, issued >>
    /\ UNCHANGED << dashVars, panelVars, serverVars, wsVars >>

(***************************************************************************)
(* The system.                                                             *)
(***************************************************************************)
Init ==
    /\ dashboard \in { "part_001", "part_002" }
    /\ panel \in { 1, 2 }
    /\ simulationData = Null
    /\ simulationHistory = << >>
    /\ isRunning = FALSE
    /\ flips = 0
    /\ websocket = Null
    /\ error = NoError
    /\ readyState = "CONNECTING"
    /\ mounted = TRUE
    /\ wsChannel = << >>
    /\ requests = << >>
    /\ issued = 0
    /\ simulationParams = DefaultSimulationParams
    /\ operatingParams = DefaultOperatingParams
    /\ materialInput = DefaultMaterialInput
    /\ clock = "idle"
    /\ tick = 0
    /\ params = DefaultOperatingParams
    /\ commandQueue = << >>
    /\ zoneMass = [z \in ZoneKinds |-> 0]
    /\ missedFrames = 0
    /\ peer = NoPeer
    /\ misordered = FALSE
    /\ delivered = << >>
    /\ lastBranch = "none"
    /\ scene = InitialScene
    /\ heap = InitialHeap
    /\ historyRef = 1
    /\ chartData = << >>
    /\ edits = 0

\* an edit of a form; the other components do not move
Edit(change, bound) ==
    /\ edits < bound
    /\ change
    /\ edits' = edits + 1
    /\ UNCHANGED << dashVars, serverVars, wsVars, requests, issued, fixedVars >>

\* the run: start, stop and the status poll, with the server's answers
RunNext ==
    \/ ClickStart
    \/ ClickStop
    \/ PollStatus
    \/ \E i \in 1..Len(requests) :
            \/ ReceiveStart(i) \/ ReceiveStop(i) \/ ReceiveStatus(i)
            \/ StartResponse(i) \/ StopResponse(i) \/ StatusResponse(i)
            \/ RequestLost(i)
    \/ ServerTick(MaxTicks, TRUE)
    \/ ServerFault

SpecRun == Init /\ [][RunNext]_vars

\* the commands of a run, from the panel to the tick that applies them
ControlNext ==
    \/ ClickStart
    \/ ClickStop
    \/ ClickUpdateParameters
    \/ \E t \in { << "-", "1", "0" >>, << "5", "0", "0" >> } :
            Edit(handleOperatingParamChange("arc_voltage", t), MaxEdits)
    \/ \E i \in 1..Len(requests) :
            \/ ReceiveStart(i) \/ ReceiveStop(i) \/ ReceiveUpdate(i)
            \/ StartResponse(i) \/ StopResponse(i) \/ UpdateResponse(i)
    \/ ServerTick(MaxTicks, TRUE)

Spec == Init /\ [][ControlNext]_vars

\* the state a started run reaches: Start clicked, the start accepted, its
\* response handled, the socket open and greeted
RunningInit ==
    /\ dashboard \in { "part_001", "part_002" }
    /\ panel \in { 1, 2 }
    /\ simulationData = Null
    /\ simulationHistory = << >>
    /\ isRunning = TRUE
    /\ flips = 0
    /\ websocket = Socket
    /\ error = NoError
    /\ readyState = "OPEN"
    /\ mounted = TRUE
    /\ wsChannel = << >>
    /\ requests = << >>
    /\ issued = 1
    /\ simulationParams = DefaultSimulationParams
    /\ operatingParams = DefaultOperatingParams
    /\ materialInput = DefaultMaterialInput
    /\ clock = "running"
    /\ tick = 0
    /\ params = DefaultOperatingParams
    /\ commandQueue = << >>
    /\ zoneMass = [z \in ZoneKinds |-> 0]
    /\ missedFrames = 0
    /\ peer = NoPeer
    /\ misordered = FALSE
    /\ delivered = << >>
    /\ lastBranch = "none"
    /\ scene = InitialScene
    /\ heap = InitialHeap
    /\ historyRef = 1
    /\ chartData = << >>
    /\ edits = 0

\* the parameter forms of the panel and the payloads they send, before a run
\* and during one
FormNext ==
    \/ \E f \in SimulationInputs, t \in FieldTexts :
            Edit(handleSimulationParamChange(f, t), MaxFormEdits)
    \/ \E f \in OperatingInputs, t \in FieldTexts :
            Edit(handleOperatingParamChange(f, t), MaxFormEdits)
    \/ ClickStart
    \/ ClickUpdateParameters

SpecForm == (Init \/ RunningInit) /\ [][FormNext]_vars

\* the power read-out of the panel during a run: snapshots arrive, the
\* operating parameters are edited and sent
ReadoutNext ==
    \/ ServerTick(MaxTicks, TRUE)
    \/ WsMessage
    \/ \E t \in { << "5", "0", "0" >>, << "3", "0", "0" >> } :
            Edit(handleOperatingParamChange("arc_voltage", t), MaxEdits)
    \/ ClickUpdateParameters
    \/ \E i \in 1..Len(requests) : ReceiveUpdate(i) \/ UpdateResponse(i)

SpecReadout == RunningInit /\ [][ReadoutNext]_vars

\* the 3D view during a run: snapshots arrive and frames are rendered
ViewNext ==
    \/ ServerTick(MaxTicks, TRUE)
    \/ WsMessage
    \/ animate

SpecView == RunningInit /\ [][ViewNext]_vars

\* the snapshot objects of a run: messages, commands and chart computations
ObjectsNext ==
    \/ ServerTick(MaxTicks, TRUE)
    \/ WsMessage
    \/ RenderCharts
    \/ ClickUpdateParameters
    \/ \E i \in 1..Len(requests) : ReceiveUpdate(i) \/ UpdateResponse(i)

SpecObjects == RunningInit /\ [][ObjectsNext]_vars

\* the charts of a run whose snapshots carry any of the temperatures
ChartsNext ==
    \/ WsSnapshotFrame
    \/ WsMessage

SpecCharts == RunningInit /\ [][ChartsNext]_vars

\* the messages of a run, of every kind, handled by the Dashboard until it
\* is unmounted
MessagesNext ==
    \/ ServerTick(MaxTicks, TRUE)
    \/ WsAnyFrame
    \/ WsMessage
    \/ Cleanup

SpecMessages == RunningInit /\ [][MessagesNext]_vars

\* start, stop and the status poll against a server that changes state only
\* on commands: no fault, no lost request, no run that ends by itself
PollNext ==
    \/ ClickStart
    \/ ClickStop
    \/ PollStatus
    \/ \E i \in 1..Len(requests) :
            \/ ReceiveStart(i) \/ ReceiveStop(i) \/ ReceiveStatus(i)
            \/ StartResponse(i) \/ StopResponse(i) \/ StatusResponse(i)

SpecPoll == Init /\ [][PollNext]_vars

\* the life of the socket of the effect: it opens or fails, carries frames,
\* closes; the Dashboard is unmounted at any moment
LifecycleNext ==
    \/ WsOpen
    \/ WsAnyFrame
    \/ WsMessage
    \/ WsError
    \/ WsClose
    \/ Cleanup

SpecLifecycle == Init /\ [][LifecycleNext]_vars

\* every command during and after a run whose snapshots are being stored
CommandsNext ==
    \/ ClickStart
    \/ ClickStop
    \/ ClickUpdateParameters
    \/ ClickAddMaterial
    \/ \E i \in 1..Len(requests) :
            \/ ReceiveStart(i) \/ ReceiveStop(i) \/ ReceiveUpdate(i) \/ ReceiveAdd(i)
            \/ StartResponse(i) \/ StopResponse(i) \/ UpdateResponse(i) \/ AddResponse(i)
            \/ RequestLost(i)
    \/ ServerTick(MaxTicks, TRUE)
    \/ WsMessage

SpecCommands == RunningInit /\ [][CommandsNext]_vars

\* the validation of parameter updates: one value out of each range
OutOfRangeEdits ==
    { << "arc_voltage", << "-", "1", "0" >> >>,
      << "arc_current", << "0" >> >>,
      << "power_factor", << "1", ".", "5" >> >>,
      << "oxygen_flow_rate", << "-", "1" >> >>,
      << "arc_voltage", << "5", "0", "0" >> >> }

ValidateNext ==
    \/ ClickUpdateParameters
    \/ \E e \in OutOfRangeEdits :
            Edit(handleOperatingParamChange(e[1], e[2]), MaxEdits)
    \/ \E i \in 1..Len(requests) : ReceiveUpdate(i) \/ UpdateResponse(i)
    \/ ServerTick(MaxTicks, TRUE)

SpecValidate == RunningInit /\ [][ValidateNext]_vars

\* the material form of the panel and the requests it sends
MaterialNext ==
    \/ \E t \in NameTexts :
            Edit(handleMaterialInputChange("material_name", t), MaxMaterialEdits)
    \/ \E t \in NumberTexts :
            Edit(handleMaterialInputChange("amount", t), MaxMaterialEdits)
    \/ \E z \in ZoneOptions :
            Edit(handleMaterialInputChange("zone", z), MaxMaterialEdits)
    \/ ClickStart
    \/ ClickAddMaterial
    \/ \E i \in 1..Len(requests) :
            \/ ReceiveStart(i) \/ ReceiveAdd(i)
            \/ StartResponse(i) \/ AddResponse(i)
    \/ ServerTick(MaxTicks, TRUE)

SpecMaterial == Init /\ [][MaterialNext]_vars

\* the material form alone, before a run and during one
ZoneNext ==
    \/ \E t \in NameTexts :
            Edit(handleMaterialInputChange("material_name", t), MaxMaterialEdits)
    \/ \E t \in NumberTexts :
            Edit(handleMaterialInputChange("amount", t), MaxMaterialEdits)
    \/ \E z \in ZoneOptions :
            Edit(handleMaterialInputChange("zone", z), MaxMaterialEdits)
    \/ ClickAddMaterial

SpecZone == (Init \/ RunningInit) /\ [][ZoneNext]_vars

\* the material form filled and sent more than once
AddNext ==
    \/ \E t \in NameTexts :
            Edit(handleMaterialInputChange("material_name", t), MaxAddEdits)
    \/ \E t \in NumberTexts :
            Edit(handleMaterialInputChange("amount", t), MaxAddEdits)
    \/ \E z \in ZoneOptions :
            Edit(handleMaterialInputChange("zone", z), MaxAddEdits)
    \/ ClickAddMaterial

SpecAdd == (Init \/ RunningInit) /\ [][AddNext]_vars

\* a long run streamed to a Dashboard that keeps up with it
\* a run that ends on the server without a stop from this Dashboard.  Every
\* message sent is delivered, every request answered and its response
\* handled, and the interval of the poll keeps firing.
EndNext ==
    \/ ClickStart
    \/ WsOpen
    \/ PeriodicPoll
    \/ \E i \in 1..Len(requests) :
            \/ ReceiveStart(i) \/ ReceiveStatus(i)
            \/ StartResponse(i) \/ StatusResponse(i)
    \/ ServerTick(MaxTicks, TRUE)
    \/ ServerFault
    \/ WsMessage

SpecEnd ==
    /\ Init /\ [][EndNext]_vars
    /\ WF_vars(WsMessage)
    /\ WF_vars(PeriodicPoll)
    /\ WF_vars(\E i \in 1..Len(requests) : ReceiveStart(i))
    /\ WF_vars(\E i \in 1..Len(requests) : ReceiveStatus(i))
    /\ WF_vars(\E i \in 1..Len(requests) : StartResponse(i))
    /\ WF_vars(\E i \in 1..Len(requests) : StatusResponse(i))

\* the broadcaster with a Dashboard that drains its queue or not, and another
\* subscriber
BroadcastNext ==
    \/ ServerTick(MaxTicks, TRUE)
    \/ WsMessage
    \/ PeerSubscribe
    \/ PeerReceive

SpecBroadcast == RunningInit /\ [][BroadcastNext]_vars

\* the frames of a run arriving at the Dashboard, among frames of other kinds
SocketNext ==
    \/ ServerTick(MaxTicks, TRUE)
    \/ Heartbeat
    \/ WsFrame
    \/ WsMessage

SpecSocket == RunningInit /\ [][SocketNext]_vars

HistoryNext ==
    \/ ServerTick(MaxHistoryTicks, FALSE)
    \/ WsMessage

SpecHistory == RunningInit /\ [][HistoryNext]_vars

(***************************************************************************)
(* Properties.                                                             *)
(***************************************************************************)
\* the last n elements of a sequence
LastN(s, n) == IF Len(s) <= n THEN s ELSE SubSeq(s, Len(s) - n + 1, Len(s))

\* onmessage treated the frame of this step as a snapshot
SnapshotArrives == mounted /\ delivered' # delivered

\* C1: simulationHistory never holds more than 1000 entries, and a snapshot
\* that arrives while 1000 are stored evicts the oldest entry and no other:
\* the history becomes the 999 newer entries followed by the new snapshot.
C1_HistoryBoundedFifo ==
    /\ [](Len(simulationHistory) <= HistoryKeep)
    /\ [][ (SnapshotArrives /\ Len(simulationHistory) = HistoryKeep)
            => simulationHistory' = Tail(simulationHistory) \o << Head(wsChannel).value >> ]_vars

C1_Witness ==
    /\ Len(simulationHistory) = HistoryKeep
    /\ Len(delivered) > HistoryKeep
    /\ simulationHistory[1] = delivered[Len(delivered) - HistoryKeep + 1]

C3_CommandsInIssueOrder == ~misordered

\* the handler of request i ran to its end in this step, on a mounted
\* Dashboard, for a request of the given kind
Handled(i, kind) ==
    /\ mounted
    /\ i \in Answered(kind)
    /\ requests' = Settle(i)

\* the step sent one more request of the given kind
Sends(kind) ==
    /\ Len(requests') = Len(requests) + 1
    /\ requests'[Len(requests')].kind = kind

\* C7: an update_parameters request is sent only in a state where isRunning
\* is true.
C7_UpdateOnlyWhileRunning ==
    [][ Sends("update_parameters") => isRunning ]_vars

C7_Witness ==
    /\ isRunning
    /\ \E i \in 1..Len(requests) : requests[i].kind = "update_parameters"

\* C10: whenever the response to a start, stop, update_parameters or
\* add_material request is an HTTP error or carries a status other than
\* 'success', handling it leaves the Dashboard's error non-null.
C10_RejectionsSurfaced ==
    [][ \A i \in 1..Len(requests) :
          \A kind \in { "start", "stop", "update_parameters", "add_material" } :
            ( /\ Handled(i, kind)
              /\ requests[i].response.net
              /\ ~requests[i].response.ok \/ requests[i].response.status # "success" )
            => error' # NoError ]_vars

\* the response is the one of an accepted command
IsSuccess(resp) == resp.net /\ resp.ok /\ resp.status = "success"

\* this step handled the response of a start request that did not succeed
StartRefused(i) == Handled(i, "start") /\ ~IsSuccess(requests[i].response)

\* the statement of C4 as written: isRunning becomes true only in the step
\* that handles a start response with status 'success', and every other
\* outcome of a start leaves isRunning as it was and error non-null.
C4_TrueOnlyOnStartSuccess ==
    [][ /\ (~isRunning /\ isRunning') =>
              \E i \in 1..Len(requests) :
                    Handled(i, "start") /\ IsSuccess(requests[i].response)
        /\ \A i \in 1..Len(requests) :
              StartRefused(i) => (isRunning' = isRunning /\ error' # NoError) ]_vars

\* C4: isRunning becomes true only in the step that handles a start response
\* with status 'success' or, in the Dashboard that polls the status, a status
\* response that reports is_running; every other outcome of a start (status
\* not 'success', HTTP error, network failure) leaves isRunning as it was and
\* error non-null.
C4_StartOutcome ==
    [][ /\ (~isRunning /\ isRunning') =>
              \E i \in 1..Len(requests) :
                  \/ Handled(i, "start") /\ IsSuccess(requests[i].response)
                  \/ /\ dashboard = "part_002"
                     /\ Handled(i, "status")
                     /\ requests[i].response.net /\ requests[i].response.ok
                     /\ requests[i].response.is_running
        /\ \A i \in 1..Len(requests) :
              StartRefused(i) => (isRunning' = isRunning /\ error' # NoError) ]_vars

C4_Witness ==
    /\ error = "already_running"
    /\ clock # "idle"
    /\ ~isRunning

\* C5: of the stop requests of one run, two in flight together included, at
\* most one turns isRunning from true to false; a stop that arrives when the
\* run is no longer running is rejected and changes nothing on the server, and
\* handling a stop result that is not a success sets error and leaves
\* isRunning as it was.
C5_StopTwice ==
    /\ [](flips <= 1)
    /\ [][ \A i \in 1..Len(requests) :
             /\ ( /\ i \in Sent("stop")
                  /\ clock # "running" \/ StopPending
                  /\ Len(requests') = Len(requests)
                  /\ requests'[i].state = "answered" )
                => ( /\ ~IsSuccess(requests'[i].response)
                     /\ UNCHANGED << clock, commandQueue >> )
             /\ ( Handled(i, "stop") /\ ~IsSuccess(requests[i].response) )
                => ( isRunning' = isRunning /\ flips' = flips /\ error' # NoError ) ]_vars

C5_Witness ==
    /\ flips = 1
    /\ ~isRunning
    /\ error = "not_running"
    /\ clock = "stopped"

\* C6: the Clock goes idle, running, stopped and never back: a stopped Clock
\* stays stopped, a Clock that left idle never is idle again, a start that
\* reaches a stopped Clock is refused and changes nothing on the server, and in
\* the Dashboard without the status poll isRunning is never true again once a
\* stop has turned it off.
C6_StoppedIsTerminal ==
    [][ /\ clock = "stopped" => clock' = "stopped"
        /\ clock # "idle" => clock' # "idle"
        /\ \A i \in 1..Len(requests) :
              ( /\ i \in Sent("start")
                /\ clock = "stopped"
                /\ Len(requests') = Len(requests)
                /\ requests'[i].state = "answered" )
              => ( ~IsSuccess(requests'[i].response) /\ UNCHANGED serverVars )
        /\ (dashboard = "part_001" /\ flips > 0) => ~isRunning' ]_vars

C6_Witness ==
    /\ clock = "stopped"
    /\ flips = 1
    /\ ~isRunning
    /\ error = "already_running"

\* C8: an add_material request is sent only in a state where isRunning is
\* true.
C8_AddOnlyWhileRunning ==
    [][ Sends("add_material") => isRunning ]_vars

\* the fields of an update that carry one of the out-of-range values: a
\* voltage or current <= 0, a power factor outside (0, 1], a negative feed rate
OutOfRangeFields(payload) ==
    { f \in DOMAIN payload :
        /\ ~payload[f].nan
        /\ \/ f \in { "arc_voltage", "arc_current" } /\ payload[f].val <= 0
           \/ f = "power_factor" /\ (payload[f].val <= 0 \/ payload[f].val > 100)
           \/ /\ f \in { "oxygen_flow_rate", "carbon_injection_rate",
                         "lime_addition_rate", "dolomite_addition_rate" }
              /\ payload[f].val < 0 }

\* C9: an update_parameters command with an out-of-range value is answered
\* with out_of_range:<field> for one of its out-of-range fields and leaves the
\* server as it was (parameters in effect, queue, zones, tick, hence the next
\* snapshot); no queued update and no parameter in effect ever holds such a
\* value.
C9_OutOfRangeRejected ==
    /\ [][ \A i \in 1..Len(requests) :
             ( /\ i \in Sent("update_parameters")
               /\ OutOfRangeFields(requests[i].payload) # {}
               /\ Len(requests') = Len(requests)
               /\ requests'[i].state = "answered" )
             => ( /\ ~IsSuccess(requests'[i].response)
                  /\ \E f \in OutOfRangeFields(requests[i].payload) :
                        requests'[i].response.message = "out_of_range:" \o f
                  /\ UNCHANGED serverVars ) ]_vars
    /\ [] /\ OutOfRangeFields(params) = {}
          /\ \A k \in 1..Len(commandQueue) :
                commandQueue[k].kind = "update_parameters"
                    => OutOfRangeFields(commandQueue[k].payload) = {}

C9_Witness ==
    /\ clock = "running"
    /\ params.arc_voltage = Num(40000)
    /\ \E i \in 1..Len(requests) :
          /\ requests[i].kind = "update_parameters"
          /\ requests[i].payload.arc_voltage = Num(-1000)
          /\ requests[i].state = "answered"
          /\ requests[i].response.message = "out_of_range:arc_voltage"

\* the add_material requests in flight
AddRequests == { i \in 1..Len(requests) : requests[i].kind = "add_material" }

\* C11: every add_material request that leaves the Control Panel carries a
\* non-empty material name and an amount that is a number greater than 0.
C11_AddPayloadValid ==
    \A i \in AddRequests :
        /\ requests[i].payload.material_name # ""
        /\ ~requests[i].payload.amount.nan
        /\ requests[i].payload.amount.val > 0

\* every field of the payload holds a finite number
AllFinite(payload) == \A f \in DOMAIN payload : ~payload[f].nan

\* C12: every start payload has exactly the six setup fields and every
\* update_parameters payload exactly the eight operating fields, each holding
\* a finite number, whatever was typed into the inputs.
C12_PayloadSchema ==
    \A i \in 1..Len(requests) :
        /\ requests[i].kind = "start" =>
              /\ DOMAIN requests[i].payload = SimulationFields
              /\ AllFinite(requests[i].payload)
        /\ requests[i].kind = "update_parameters" =>
              /\ DOMAIN requests[i].payload = OperatingInputs
              /\ AllFinite(requests[i].payload)

\* onmessage handles, in this step, a frame whose type is one of the given
OnMessageOfType(types) ==
    /\ mounted
    /\ wsChannel # << >>
    /\ wsChannel' = Tail(wsChannel)
    /\ lastBranch' # "catch"
    /\ Head(wsChannel).json
    /\ "type" \in DOMAIN Head(wsChannel).value
    /\ Head(wsChannel).value.type \in types

\* C13: handling a message of type 'heartbeat' or 'connection_status' leaves
\* simulationData and simulationHistory as they were, whatever else the
\* message carries.
C13_HeartbeatKeepsData ==
    [][ OnMessageOfType({ "heartbeat", "connection_status" })
            => UNCHANGED << simulationData, simulationHistory >> ]_vars

C13_Witness ==
    /\ lastBranch = "heartbeat"
    /\ simulationHistory # << >>
    /\ simulationData = simulationHistory[Len(simulationHistory)]
    /\ HasType(simulationData, "simulation_data")

\* C14: when the run has ended on the server without a stop from this
\* Dashboard, isRunning eventually is false.
C14_RunEndReflected == (clock = "stopped") ~> ~isRunning

\* the Clock produces a tick in this step
TickProduced == tick' = tick + 1

\* the simulation times of the frames of a sequence are consecutive
Consecutive(frames) ==
    \A k \in 1..(Len(frames) - 1) :
        frames[k + 1].value.simulation_time = frames[k].value.simulation_time + 1

SetupOnlyFields == { "furnace_capacity", "simulation_duration", "time_step" }

\* C16: time_step travels in start payloads only: no update_parameters
\* request carries it or another setup field, and an edit of the setup fields
\* made while isRunning is true sends nothing.
C16_TimeStepOnlyAtStart ==
    /\ [] \A i \in 1..Len(requests) :
            /\ "time_step" \in DOMAIN requests[i].payload => requests[i].kind = "start"
            /\ requests[i].kind = "update_parameters" =>
                    DOMAIN requests[i].payload \cap SetupOnlyFields = {}
    /\ [][ (isRunning /\ simulationParams' # simulationParams)
                => UNCHANGED << requests, operatingParams >> ]_vars

C16_Witness ==
    /\ isRunning
    /\ simulationParams.time_step = Num(200)
    /\ \E i \in 1..Len(requests) :
          /\ requests[i].kind = "update_parameters"
          /\ requests[i].payload = operatingParams

\* C17: once a snapshot has been received, the power read-out of the first
\* panel is V x I x pf of the operating parameters in effect in the run (the
\* read-out is in MW, the parameters give kW), 16.0 MW for the default start
\* configuration.
C17_PowerReadout ==
    (panel = 1 /\ simulationData # Null /\ clock = "running") =>
        /\ getCurrentPower * 1000 = ElectricalPower(params)
        /\ params = DefaultOperatingParams => getCurrentPower = 1600

\* C18: every animation frame rendered while isRunning is true and a
\* snapshot has been received leaves the arc colour computed from the latest
\* snapshot's current_power and the metal-pool colour from its liquid-metal
\* temperature.
C18_ViewFollowsSnapshot ==
    [][ (scene'.rotation # scene.rotation /\ isRunning /\ simulationData # Null)
            => /\ scene'.arc = ComputedFrom(simulationData.current_power)
               /\ scene'.pool =
                      ComputedFrom(simulationData.zone_temperatures.liquid_metal) ]_vars

\* C19: no step changes a snapshot object that exists or the contents of an
\* array that exists: messages, commands and chart computations only add
\* objects and arrays; the array simulationHistory holds refers to exactly
\* the snapshots of the history.
C19_SnapshotsImmutable ==
    /\ [][ /\ Len(heap.objects') >= Len(heap.objects)
           /\ Len(heap.arrays') >= Len(heap.arrays)
           /\ \A id \in 1..Len(heap.objects) : heap.objects'[id] = heap.objects[id]
           /\ \A ref \in 1..Len(heap.arrays) : heap.arrays'[ref] = heap.arrays[ref] ]_vars
    /\ [] ( historyRef # 0 => Deref(heap, historyRef) = simulationHistory )

C19_Witness ==
    /\ historyRef # 0
    /\ Len(simulationHistory) >= 2
    /\ Len(chartData) >= 1
    /\ Len(heap.arrays) >= 6
    /\ \E i \in 1..Len(requests) : requests[i].kind = "update_parameters"

C21_IgnitionTemperature ==
    LET points == ProcessedChartData(simulationHistory)
        Temp(k) == simulationHistory[k].zone_temperatures.liquid_metal
    IN  /\ Len(points) = Len(simulationHistory)
        /\ \A k \in 1..Len(points) :
              IF ~HasLiquidMetal(simulationHistory[k])
              THEN points[k].carbon = 0 /\ points[k].silicon = 0
              ELSE /\ (Temp(k) <= 120000) => points[k].carbon = 0
                   /\ (Temp(k) > 120000) => points[k].carbon > 0
                   /\ (Temp(k) <= 140000) => points[k].silicon = 0
                   /\ (Temp(k) > 140000) => points[k].silicon > 0
        /\ \A j, k \in 1..Len(points) :
              ( /\ HasLiquidMetal(simulationHistory[j])
                /\ HasLiquidMetal(simulationHistory[k])
                /\ Temp(j) <= Temp(k) )
              => /\ points[j].carbon <= points[k].carbon
                 /\ points[j].silicon <= points[k].silicon

C21_Witness ==
    /\ Len(simulationHistory) = 2
    /\ HasLiquidMetal(simulationHistory[1])
    /\ simulationHistory[1].zone_temperatures.liquid_metal = 120050
    /\ ~HasLiquidMetal(simulationHistory[2])
    /\ ProcessedChartData(simulationHistory)[1].carbon > 0

\* onmessage of the mounted Dashboard handles, in this step, the frame at the
\* head of the channel
OnMessage ==
    /\ mounted
    /\ wsChannel # << >>
    /\ wsChannel' = Tail(wsChannel)
    /\ readyState' = readyState

\* the step treats the value of the frame at the head of the channel as a
\* snapshot: it becomes simulationData and the newest entry of the history,
\* which otherwise keeps its entries but for the oldest beyond HistoryKeep
TreatedAsSnapshot ==
    /\ simulationData' = Head(wsChannel).value
    /\ simulationHistory' =
          LastN(Append(simulationHistory, Head(wsChannel).value), HistoryKeep)

\* the frame is JSON whose value has no type, or a type other than
\* connection_status and heartbeat
NeitherStatusNorHeartbeat(frame) ==
    /\ frame.json
    /\ ~HasType(frame.value, "connection_status")
    /\ ~HasType(frame.value, "heartbeat")

\* C22 as stated: every message JSON.parse accepts and whose type is neither
\* connection_status nor heartbeat is treated as a snapshot.
C22_EveryParsedIsSnapshot ==
    [][ (OnMessage /\ NeitherStatusNorHeartbeat(Head(wsChannel)))
            => TreatedAsSnapshot ]_vars

\* C22: every message JSON.parse accepts, other than the JSON text null, whose
\* type is neither connection_status nor heartbeat is treated as a snapshot;
\* the JSON text null changes neither simulationData nor simulationHistory.
C22_ParsedNonNullIsSnapshot ==
    [][ /\ ( /\ OnMessage /\ NeitherStatusNorHeartbeat(Head(wsChannel))
             /\ Head(wsChannel).value # Null ) => TreatedAsSnapshot
        /\ ( OnMessage /\ Head(wsChannel) = Frame(Null) )
             => UNCHANGED << simulationData, simulationHistory >> ]_vars

C22_Witness ==
    /\ mounted
    /\ Len(simulationHistory) = 2
    /\ simulationHistory[1] = Primitive(5)
    /\ HasType(simulationHistory[2], "status_update")
    /\ simulationData = simulationHistory[2]

\* C23: handling a message that is no JSON leaves simulationData,
\* simulationHistory, isRunning, error and websocket as they were and the
\* socket as it was, and a message handled after one that was no JSON is
\* handled as any other: a snapshot is stored, a heartbeat changes nothing.
C23_BadJsonIgnored ==
    [][ /\ ( OnMessage /\ ~Head(wsChannel).json )
            => /\ UNCHANGED << simulationData, simulationHistory, isRunning,
                               error, websocket >>
               /\ UNCHANGED << readyState, mounted >>
        /\ ( /\ OnMessage /\ lastBranch = "catch"
             /\ NeitherStatusNorHeartbeat(Head(wsChannel))
             /\ Head(wsChannel).value # Null ) => TreatedAsSnapshot
        /\ ( OnMessage /\ lastBranch = "catch" /\ Head(wsChannel).json
             /\ HasType(Head(wsChannel).value, "heartbeat") )
            => UNCHANGED << simulationData, simulationHistory >> ]_vars

C23_Witness ==
    /\ mounted /\ readyState = "OPEN"
    /\ lastBranch = "catch"
    /\ simulationHistory # << >>
    /\ wsChannel # << >> /\ Head(wsChannel).json
    /\ HasType(Head(wsChannel).value, "simulation_data")

\* C24: simulationData is null exactly when simulationHistory is empty, and
\* otherwise it is the newest (last) entry of simulationHistory.
C24_DataIsNewestEntry ==
    /\ (simulationData = Null) <=> (simulationHistory = << >>)
    /\ simulationHistory # << >>
          => simulationData = simulationHistory[Len(simulationHistory)]

C24_Witness ==
    /\ Len(simulationHistory) = 2
    /\ simulationHistory[1] # simulationHistory[2]
    /\ simulationData = simulationHistory[2]
    /\ simulationData # Null
    /\ HasType(simulationHistory[1], "simulation_data")

\* C25: whenever no start, stop or status request of the mounted Dashboard is
\* in flight, isRunning is the running state of the server (so no status
\* response computed before a command took effect has replaced the value the
\* command's response set).
C25_RunningMatchesServer ==
    ( /\ mounted
      /\ \A i \in 1..Len(requests) : requests[i].kind \notin { "start", "stop", "status" } )
    => (isRunning <=> Running)

\* C26: once the cleanup of the WebSocket effect has run, the socket is
\* closing or closed, and no step changes the state of the Dashboard.
C26_CleanupClosesSocket ==
    /\ [] ( ~mounted => readyState \in { "CLOSING", "CLOSED" } )
    /\ [][ ~mounted => UNCHANGED dashVars ]_vars

\* C27: while the Dashboard is mounted, websocket is non-null only while the
\* socket is open (onopen has fired, onclose has not) and null once the socket
\* is closed; a closed socket stays closed, so websocket stays null; and
\* getConnectionStatus is never 'connecting'.
C27_WebsocketOnlyWhileOpen ==
    /\ [] ( (mounted /\ websocket # Null) => readyState = "OPEN" )
    /\ [] ( (mounted /\ readyState = "CLOSED") => websocket = Null )
    /\ [] ( readyState = "CONNECTING" => websocket = Null )
    /\ [][ readyState = "CLOSED" => readyState' = "CLOSED" ]_vars
    /\ [] ( getConnectionStatus # "connecting" )

C27_Witness ==
    /\ mounted
    /\ readyState = "CLOSED"
    /\ websocket = Null
    /\ simulationHistory # << >>
    /\ getConnectionStatus = "disconnected"

\* the material form of the first panel can be sent
FormFilled == materialInput.material_name # "" /\ Greater(materialInput.amount, 0)

\* an add_material request is issued in this step
AddIssued ==
    /\ Len(requests') = Len(requests) + 1
    /\ requests'[Len(requests')].kind = "add_material"

\* C28: in the first panel a step that issues an add_material request starts
\* from a filled form and leaves the form reset to ('', 0, 'liquid_metal'); no
\* step that leaves an unfilled form as it is issues a request; and the
\* requests issued never outnumber the fillings of the form, each of which
\* takes an edit of the name and an edit of the amount.
C28_AddResetsForm ==
    /\ [][ (panel = 1 /\ AddIssued)
             => FormFilled /\ materialInput' = DefaultMaterialInput ]_vars
    /\ [][ (panel = 1 /\ ~FormFilled /\ materialInput' = materialInput)
             => requests' = requests ]_vars
    /\ [] ( panel = 1 => 2 * Cardinality(AddRequests) <= edits )

C28_Witness ==
    /\ panel = 1
    /\ Cardinality(AddRequests) = 2
    /\ materialInput = DefaultMaterialInput
    /\ \E i \in AddRequests : requests[i].payload.zone = "liquid_metal"

WireField(item, field) == IF field \in DOMAIN item THEN item[field] ELSE 0
WireZone(item, group, zone) ==
    IF group \in DOMAIN item /\ zone \in DOMAIN item[group] THEN item[group][zone] ELSE 0

\* the point plots the fields of the snapshot as they are
PlotsFields(point, item) ==
    /\ point.metalTemp = WireZone(item, "zone_temperatures", "liquid_metal")
    /\ point.slagTemp = WireZone(item, "zone_temperatures", "slag")
    /\ point.refractoryTemp = WireZone(item, "zone_temperatures", "refractory")
    /\ point.power = WireField(item, "current_power")
    /\ point.efficiency = WireField(item, "energy_efficiency")
    /\ point.metalMass = WireZone(item, "zone_masses", "liquid_metal")
    /\ point.slagMass = WireZone(item, "zone_masses", "slag")
    /\ point.arcLength = WireField(item, "arc_length")
    /\ point.electrodePosition = WireField(item, "electrode_position")

\* one point per entry of the history, in its order, for both panels, and the
\* total mass of the summary is that of the newest snapshot
OnePointPerEntry ==
    /\ Len(ChartDataAll(simulationHistory)) = Len(simulationHistory)
    /\ Len(ProcessedChartData(simulationHistory)) = Len(simulationHistory)
    /\ \A k \in 1..Len(simulationHistory) :
          /\ ChartDataAll(simulationHistory)[k].time = k - 1
          /\ PlotsFields(ChartDataAll(simulationHistory)[k], simulationHistory[k])
    /\ simulationHistory # << >> =>
          summaryMetrics(ChartDataAll(simulationHistory)).totalMass =
              WireZone(simulationData, "zone_masses", "liquid_metal")
              + WireZone(simulationData, "zone_masses", "slag")

\* C30 as stated: with the time range 'all' there is one point per entry of
\* the history, in order; every plotted value of either panel is the field of
\* the snapshot, 0 when absent; the total mass is that of the newest snapshot.
C30_ChartsPlotFields ==
    /\ OnePointPerEntry
    /\ \A k \in 1..Len(simulationHistory) :
          LET point == ProcessedChartData(simulationHistory)[k]
              item == simulationHistory[k]
          IN  /\ point.metalTemp = WireZone(item, "zone_temperatures", "liquid_metal")
              /\ point.slagTemp = WireZone(item, "zone_temperatures", "slag")
              /\ point.refractoryTemp = WireZone(item, "zone_temperatures", "refractory")
              /\ point.power = WireField(item, "current_power")

\* C30: as above, but the panel that plots the oxidation rates plots its
\* temperatures and its power rounded to the nearest whole number.
C30_ChartsPlotFieldsRounded ==
    /\ OnePointPerEntry
    /\ \A k \in 1..Len(simulationHistory) :
          LET point == ProcessedChartData(simulationHistory)[k]
              item == simulationHistory[k]
          IN  /\ point.metalTemp =
                    MathRound(WireZone(item, "zone_temperatures", "liquid_metal"))
              /\ point.slagTemp = MathRound(WireZone(item, "zone_temperatures", "slag"))
              /\ point.refractoryTemp =
                    MathRound(WireZone(item, "zone_temperatures", "refractory"))
              /\ point.power = MathRound(WireField(item, "current_power"))

C30_Witness ==
    /\ Len(simulationHistory) = 2
    /\ "zone_masses" \notin DOMAIN simulationHistory[1]
    /\ "zone_masses" \in DOMAIN simulationData
    /\ WireField(simulationData, "current_power") = 1600050
    /\ ProcessedChartData(simulationHistory)[2].power = 1600100
    /\ ChartDataAll(simulationHistory)[2].power = 1600050
    /\ ChartDataAll(simulationHistory)[1].metalMass = 0
    /\ summaryMetrics(ChartDataAll(simulationHistory)).totalMass = 13550
====
